---- MODULE Spec2Model ----
(***************************************************************************)
(* Model of src/frontend/main.js: the browser form handler askCerebro().   *)
(*                                                                         *)
(* Text is modelled as a sequence of one-character strings, so that trim,  *)
(* toUpperCase, join and template interpolation are computed character by  *)
(* character.  A JavaScript value is a record [t, s, n, a]: t is the type  *)
(* tag, s the characters of a string, n a number, a the elements of an     *)
(* array of strings.                                                       *)
(*                                                                         *)
(* One call of askCerebro runs synchronously up to its first await (line   *)
(* 20), is resumed when fetch settles, runs up to its second await (line   *)
(* 26) and is resumed a last time when res.json() settles.  The browser    *)
(* runs each of these pieces to completion on the single event-loop        *)
(* thread, so each piece is one action.  Nothing stops the user from       *)
(* clicking again while a call is suspended.                               *)
(***************************************************************************)
EXTENDS Integers, Sequences, FiniteSets, TLC

\* ---------------------------------------------------------------- bounds
MaxCalls == 3        \* submissions (clicks) in one behaviour

\* ------------------------------------------------------------ characters
WhiteSpace == {" ", "\t", "\n"}          \* String.prototype.trim strips these

Lower == <<"a","b","c","d","e","f","g","h","i","j","k","l","m",
           "n","o","p","q","r","s","t","u","v","w","x","y","z">>
Upper == <<"A","B","C","D","E","F","G","H","I","J","K","L","M",
           "N","O","P","Q","R","S","T","U","V","W","X","Y","Z">>
Digits == <<"0","1","2","3","4","5","6","7","8","9">>

\* ------------------------------------------------------ JavaScript values
Undef == [t |-> "undefined", s |-> <<>>, n |-> 0, a |-> <<>>]
Str(chars) == [t |-> "string", s |-> chars, n |-> 0, a |-> <<>>]
Num(k) == [t |-> "number", s |-> <<>>, n |-> k, a |-> <<>>]
Arr(elems) == [t |-> "array", s |-> <<>>, n |-> 0, a |-> elems]

\* Number::toString for the non-negative integers of the model
RECURSIVE NumToString(_)
NumToString(k) ==
    IF k < 10 THEN <<Digits[k + 1]>>
    ELSE NumToString(k \div 10) \o <<Digits[(k % 10) + 1]>>

\* Array.prototype.join(sep) on an array of strings
RECURSIVE Join(_, _)
Join(elems, sep) ==
    IF Len(elems) = 0 THEN <<>>
    ELSE IF Len(elems) = 1 THEN elems[1]
    ELSE elems[1] \o sep \o Join(Tail(elems), sep)

\* ToString, as applied by a template literal and by a DOMString setter
JSToString(v) ==
    CASE v.t = "undefined" -> <<"u","n","d","e","f","i","n","e","d">>
      [] v.t = "string" -> v.s
      [] v.t = "number" -> NumToString(v.n)
      [] v.t = "array" -> Join(v.a, <<",">>)

\* ToBoolean: undefined, "" and 0 are falsy; arrays are truthy
Truthy(v) ==
    CASE v.t = "undefined" -> FALSE
      [] v.t = "string" -> Len(v.s) > 0
      [] v.t = "number" -> v.n # 0
      [] v.t = "array" -> TRUE

\* String.prototype.trim
RECURSIVE TrimStart(_)
TrimStart(s) ==
    IF Len(s) > 0 /\ Head(s) \in WhiteSpace THEN TrimStart(Tail(s)) ELSE s

RECURSIVE TrimEnd(_)
TrimEnd(s) ==
    IF Len(s) > 0 /\ s[Len(s)] \in WhiteSpace
    THEN TrimEnd(SubSeq(s, 1, Len(s) - 1)) ELSE s

Trim(s) == TrimEnd(TrimStart(s))

\* String.prototype.toUpperCase
ToUpperChar(c) ==
    IF \E i \in 1..Len(Lower) : Lower[i] = c
    THEN Upper[CHOOSE i \in 1..Len(Lower) : Lower[i] = c]
    ELSE c

\* variant: the mode is rendered as received
ToUpperCaseOmitted(s) == s

ToUpperCase(s) == [i \in 1..Len(s) |-> ToUpperChar(s[i])]

\* ------------------------------------------------------- status literals
PleaseEnterMsg ==
    <<"P","l","e","a","s","e"," ","e","n","t","e","r"," ","a"," ",
      "q","u","e","r","y",".">>
ThinkingMsg == <<"T","h","i","n","k","i","n","g",".",".",".">>
\* "WARNING SIGN" stands for the two code points U+26A0 U+FE0F
ErrorPrefix == <<"WARNING SIGN"," ","E","r","r","o","r",":"," ">>
FailedMsg ==
    <<"WARNING SIGN"," ","F","a","i","l","e","d"," ","t","o"," ",
      "c","o","n","n","e","c","t"," ","t","o"," ",
      "C","e","r","e","b","r","o"," ","b","a","c","k","e","n","d",".">>

ErrorStatus(e) == ErrorPrefix \o JSToString(e)

\* --------------------------------------------------- inputs of the model
\* the texts of the query field: empty, white space only, a word with white
\* space on both sides, and a text with white space inside
Inputs ==
    { <<>>,
      <<" ", "\n">>,
      <<"\t", "a", " ">>,
      <<"a", "\t", "b">> }

\* A parsed response body: a JSON object with any of the six fields
Body(e, r, m, d, s, t) ==
    [error |-> e, response |-> r, mode |-> m,
     domain_used |-> d, sources_used |-> s, duration_secs |-> t]

NoData == Body(Undef, Undef, Undef, Undef, Undef, Undef)

Responses ==
    { \* the two shapes the backend documents
      Body(Undef, Str(<<"4","2">>), Str(<<"f","a","s","t">>),
           Str(<<"m","a","t","h">>), Arr(<< <<"a">>, <<"b">> >>), Num(12)),
      Body(Str(<<"b","a","d">>), Undef, Undef, Undef, Undef, Undef),
      \* an empty error string; response, domain_used, duration_secs missing
      Body(Str(<<>>), Undef, Str(<<"D","e","e","p">>),
           Undef, Arr(<< <<"c">> >>), Undef),
      \* mode missing
      Body(Undef, Str(<<"4","2">>), Undef,
           Str(<<"m","a","t","h">>), Arr(<< <<"a">>, <<"b">> >>), Num(12)),
      \* sources_used missing
      Body(Undef, Str(<<"n","o">>), Str(<<"f","a","s","t">>),
           Str(<<"w","e","b">>), Undef, Num(7)) }

\* what fetch / res.json() reject with
FetchErrors == {"TypeError: Failed to fetch"}
JsonErrors == {"SyntaxError: Unexpected token"}
PropertyError == "TypeError: Cannot read properties"

\* ----------------------------------------------------------------- state
VARIABLES
    input,        \* value of the #query field at the last click
    status,       \* #status.innerText
    responseBox,  \* #response.classList
    output,       \* #output.innerText
    mode,         \* #mode.innerText
    domain,       \* #domain.innerText
    sources,      \* #sources.innerText
    duration,     \* #duration.innerText
    calls,        \* the calls of askCerebro made so far, in order
    requests,     \* the POST requests issued so far, in order
    console,      \* what console.error has recorded
    snap          \* the display as the last completed call left it

vars == <<input, status, responseBox, output, mode, domain, sources,
          duration, calls, requests, console, snap>>

Display ==
    [status |-> status, responseBox |-> responseBox, output |-> output,
     mode |-> mode, domain |-> domain, sources |-> sources,
     duration |-> duration]

NoResult == [kind |-> "none", data |-> NoData, err |-> ""]

Pending(c) == calls[c].pc \in {"fetch", "json"}
InFlight == {c \in 1..Len(calls) : Pending(c)}

\* The page as loaded, before any click: every text empty and the result
\* region carrying the class that lines 17 and 39 add and remove.
Init ==
    /\ input = <<>>
    /\ status = <<>>
    /\ responseBox = {"hidden"}
    /\ output = <<>>
    /\ mode = <<>>
    /\ domain = <<>>
    /\ sources = <<>>
    /\ duration = <<>>
    /\ calls = <<>>
    /\ requests = <<>>
    /\ console = <<>>
    /\ snap = [status |-> <<>>, responseBox |-> {"hidden"}, output |-> <<>>,
               mode |-> <<>>, domain |-> <<>>, sources |-> <<>>,
               duration |-> <<>>]

\* ------------------------------------------------------------- askCerebro
\* JSON.stringify of a string: quoted, with the control characters escaped
RECURSIVE JsonEscape(_)
JsonEscape(s) ==
    IF Len(s) = 0 THEN <<>>
    ELSE (CASE Head(s) = "\t" -> <<"\\", "t">>
            [] Head(s) = "\n" -> <<"\\", "n">>
            [] Head(s) = "\"" -> <<"\\", "\"">>
            [] Head(s) = "\\" -> <<"\\", "\\">>
            [] OTHER -> <<Head(s)>>) \o JsonEscape(Tail(s))

\* JSON.stringify({ query })
JsonStringify(query) ==
    <<"{", "\"", "q", "u", "e", "r", "y", "\"", ":", "\"">>
        \o JsonEscape(query) \o <<"\"", "}">>

Endpoint == "http://localhost:5000/ask"

\* the request of line 20, tagged with the call that issued it
Request(c, query) ==
    [call |-> c, url |-> Endpoint, method |-> "POST",
     contentType |-> "application/json", body |-> JsonStringify(query)]

\* variant: the emptiness test of line 11 is lost
IsEmptyQueryNever(query) == FALSE

\* !query
IsEmptyQuery(query) == Len(query) = 0

\* variant: line 17 is lost, a shown result stays while the next is awaited
AddHiddenOmitted(classes) == classes

\* classList.add("hidden") and classList.remove("hidden")
AddHidden(classes) == classes \cup {"hidden"}
RemoveHidden(classes) == classes \ {"hidden"}

\* the value an innerText setter stores for a JavaScript value
InnerText(v) == JSToString(v)

\* variant: sources.innerText += ... instead of =
SourcesTextAppend(elems) == sources \o Join(elems, <<",", " ">>)

\* data.sources_used.join(", ")
SourcesText(elems) == Join(elems, <<",", " ">>)

\* variant: the catch block only logs and leaves the status as it is
CatchStatusKept(err) == status

\* the text of the status after the catch block
CatchStatus(err) == FailedMsg

NewCall(query, pc, overlapped) ==
    [query |-> query, pc |-> pc, res |-> NoResult, overlap |-> overlapped]

\* Lines 2-24: a click with the text raw in the query field.  The call runs
\* to its return at line 13, or to the await of fetch at line 20.
Submit(raw) ==
    LET query == Trim(raw)
        c == Len(calls) + 1
    IN /\ Len(calls) < MaxCalls
       /\ input' = raw
       /\ IF IsEmptyQuery(query)
          THEN /\ status' = PleaseEnterMsg
               /\ calls' = Append(calls, NewCall(query, "done", FALSE))
               /\ UNCHANGED <<responseBox, requests>>
          ELSE /\ status' = ThinkingMsg
               /\ responseBox' = AddHidden(responseBox)
               /\ requests' = Append(requests, Request(c, query))
               /\ calls' = Append(
                    [d \in 1..Len(calls) |->
                        IF Pending(d) THEN [calls[d] EXCEPT !.overlap = TRUE]
                        ELSE calls[d]],
                    NewCall(query, "fetch", InFlight # {}))
       /\ UNCHANGED <<output, mode, domain, sources, duration, console, snap>>

\* the call c returns with result res; the display it leaves is recorded
Finish(c, res) ==
    /\ calls' = [calls EXCEPT ![c].pc = "done", ![c].res = res]
    /\ snap' = [status |-> status', responseBox |-> responseBox',
                output |-> output', mode |-> mode', domain |-> domain',
                sources |-> sources', duration |-> duration']
    /\ UNCHANGED <<input, requests>>

\* Lines 41-44: the catch block
Catch(err) ==
    /\ status' = CatchStatus(err)
    /\ console' = Append(console, err)

\* variant: the catch block issues the request again
FetchRejectRetry(c, err) ==
    /\ c \in 1..Len(calls)
    /\ calls[c].pc = "fetch"
    /\ Catch(err)
    /\ requests' = Append(requests, Request(c, calls[c].query))
    /\ calls' = [calls EXCEPT ![c].pc = "done",
                  ![c].res = [kind |-> "fetchReject", data |-> NoData,
                              err |-> err]]
    /\ snap' = [snap EXCEPT !.status = status']
    /\ UNCHANGED <<input, responseBox, output, mode, domain, sources,
                   duration>>

\* Line 20: fetch rejects (connection refused, CORS, network down)
FetchReject(c, err) ==
    /\ c \in 1..Len(calls)
    /\ calls[c].pc = "fetch"
    /\ Catch(err)
    /\ UNCHANGED <<responseBox, output, mode, domain, sources, duration>>
    /\ Finish(c, [kind |-> "fetchReject", data |-> NoData, err |-> err])

\* variant: the status is cleared as soon as the response headers arrive
FetchResolveClears(c) ==
    /\ c \in 1..Len(calls)
    /\ calls[c].pc = "fetch"
    /\ calls' = [calls EXCEPT ![c].pc = "json"]
    /\ status' = <<>>
    /\ UNCHANGED <<input, responseBox, output, mode, domain, sources,
                   duration, requests, console, snap>>

\* Lines 20-26: fetch resolves; the call goes on to await res.json()
FetchResolve(c) ==
    /\ c \in 1..Len(calls)
    /\ calls[c].pc = "fetch"
    /\ calls' = [calls EXCEPT ![c].pc = "json"]
    /\ UNCHANGED <<input, status, responseBox, output, mode, domain, sources,
                   duration, requests, console, snap>>

\* Line 26: res.json() rejects (the body is not JSON)
JsonReject(c, err) ==
    /\ c \in 1..Len(calls)
    /\ calls[c].pc = "json"
    /\ Catch(err)
    /\ UNCHANGED <<responseBox, output, mode, domain, sources, duration>>
    /\ Finish(c, [kind |-> "jsonReject", data |-> NoData, err |-> err])

\* Lines 26-44: res.json() resolves with data; the rest of the call runs
JsonResolve(c, data) ==
    /\ c \in 1..Len(calls)
    /\ calls[c].pc = "json"
    /\ IF Truthy(data.error)
       THEN \* lines 28-31
            /\ status' = ErrorStatus(data.error)
            /\ UNCHANGED <<responseBox, output, mode, domain, sources,
                           duration, console>>
       ELSE \* lines 33-40, each statement in order until one throws
            /\ output' = InnerText(data.response)
            /\ IF data.mode.t # "string"
               THEN /\ Catch(PropertyError)
                    /\ UNCHANGED <<responseBox, mode, domain, sources,
                                   duration>>
               ELSE /\ mode' = ToUpperCase(data.mode.s)
                    /\ domain' = InnerText(data.domain_used)
                    /\ IF data.sources_used.t # "array"
                       THEN /\ Catch(PropertyError)
                            /\ UNCHANGED <<responseBox, sources, duration>>
                       ELSE /\ sources' = SourcesText(data.sources_used.a)
                            /\ duration' = InnerText(data.duration_secs)
                            /\ responseBox' = RemoveHidden(responseBox)
                            /\ status' = <<>>
                            /\ UNCHANGED console
    /\ Finish(c, [kind |-> "data", data |-> data, err |-> ""])

Next ==
    \/ \E raw \in Inputs : Submit(raw)
    \/ \E c \in 1..MaxCalls, err \in FetchErrors : FetchReject(c, err)
    \/ \E c \in 1..MaxCalls : FetchResolve(c)
    \/ \E c \in 1..MaxCalls, err \in JsonErrors : JsonReject(c, err)
    \/ \E c \in 1..MaxCalls, data \in Responses : JsonResolve(c, data)

Spec == Init /\ [][Next]_vars

\* =================================================================
\* Properties
\* =================================================================
IsBlank(s) == \A i \in 1..Len(s) : s[i] \in WhiteSpace

\* q is raw without its leading and trailing white space
IsTrimOf(raw, q) ==
    \E i \in 1..(Len(raw) + 1), j \in 0..Len(raw) :
        /\ q = SubSeq(raw, i, j)
        /\ \A k \in 1..(i - 1) : raw[k] \in WhiteSpace
        /\ \A k \in (j + 1)..Len(raw) : raw[k] \in WhiteSpace
        /\ Len(q) > 0 => (q[1] \notin WhiteSpace /\ q[Len(q)] \notin WhiteSpace)

\* the inverse of JsonEscape
RECURSIVE JsonUnescape(_)
JsonUnescape(s) ==
    IF Len(s) = 0 THEN <<>>
    ELSE IF Head(s) = "\\" /\ Len(s) > 1
    THEN <<(CASE s[2] = "t" -> "\t" [] s[2] = "n" -> "\n" [] OTHER -> s[2])>>
            \o JsonUnescape(Tail(Tail(s)))
    ELSE <<Head(s)>> \o JsonUnescape(Tail(s))

\* the query a backend reads out of the body {"query":"..."}
QueryOfBody(body) == JsonUnescape(SubSeq(body, 11, Len(body) - 2))

IsUpperCaseOf(s, u) ==
    /\ Len(u) = Len(s)
    /\ \A i \in 1..Len(s) :
          \/ \E k \in 1..Len(Lower) : s[i] = Lower[k] /\ u[i] = Upper[k]
          \/ (\A k \in 1..Len(Lower) : s[i] # Lower[k]) /\ u[i] = s[i]

Clicked == Len(calls') = Len(calls) + 1
Completes(c) == Pending(c) /\ calls'[c].pc = "done"
RequestsOf(c) == {i \in 1..Len(requests) : requests[i].call = c}
Valid(c) == Len(calls[c].query) > 0
Visible == "hidden" \notin responseBox
DisplayNext ==
    [status |-> status', responseBox |-> responseBox', output |-> output',
     mode |-> mode', domain |-> domain', sources |-> sources',
     duration |-> duration']

\* C1: a click on an empty or white-space-only query field issues no request
\* and sets the status to "Please enter a query.", whatever the display showed.
C1_EmptyInputNoRequest ==
    [][(Clicked /\ IsBlank(input'))
          => (requests' = requests /\ status' = PleaseEnterMsg)]_vars

\* a white-space-only click made while a result was on display
C1_Witness ==
    /\ Len(calls) >= 2
    /\ Len(input) > 0 /\ IsBlank(input)
    /\ calls[Len(calls)].pc = "done" /\ ~Valid(Len(calls))
    /\ Len(requests) = Len(calls) - 1
    /\ status = PleaseEnterMsg
    /\ Visible

\* C2: every click whose trimmed text is non-empty has exactly one POST, whose
\* body carries the trimmed text, in every later state (so after a success,
\* an error response or a transport failure as well); a blank click has none.
C2_ExactlyOnePost ==
    /\ \A c \in 1..Len(calls) :
          /\ Cardinality(RequestsOf(c)) = IF Valid(c) THEN 1 ELSE 0
          /\ \A i \in RequestsOf(c) :
                /\ requests[i].method = "POST"
                /\ QueryOfBody(requests[i].body) = calls[c].query
    /\ Len(calls) > 0 =>
          /\ IsTrimOf(input, calls[Len(calls)].query)
          /\ IsBlank(input) <=> ~Valid(Len(calls))

\* three clicks with white space around the text, ended by a success, an error
\* response and the two transport failures: still one request each
C2_Witness ==
    /\ Len(calls) = MaxCalls /\ Len(requests) = MaxCalls
    /\ input = <<"\t", "a", " ">>
    /\ QueryOfBody(requests[MaxCalls].body) = <<"a">>
    /\ QueryOfBody(requests[1].body) = <<"a", "\t", "b">>
    /\ \E c \in 1..Len(calls) : calls[c].res.kind = "fetchReject"
    /\ \E c \in 1..Len(calls) : calls[c].res.kind = "jsonReject"
    /\ \E c \in 1..Len(calls) : calls[c].res.kind = "data"

\* C3: when a call completes on a response with a truthy error field, the
\* status is the error message with that value and the result region is hidden.
C3_ErrorResponseHidesResult ==
    [][\A c \in 1..Len(calls) :
          (/\ Completes(c)
           /\ calls'[c].res.kind = "data"
           /\ Truthy(calls'[c].res.data.error))
          => (/\ status' = ErrorPrefix \o calls'[c].res.data.error.s
              /\ "hidden" \in responseBox')]_vars

\* C4: when a call completes on a response with no truthy error and all five
\* fields, the region is visible, mode is upper-cased, sources are joined with
\* ", ", output, domain and duration show what was received, status is empty.
C4_SuccessRendersResult ==
    [][\A c \in 1..Len(calls) :
          LET data == calls'[c].res.data IN
          (/\ Completes(c)
           /\ calls'[c].res.kind = "data"
           /\ ~Truthy(data.error)
           /\ data.response.t = "string" /\ data.mode.t = "string"
           /\ data.domain_used.t = "string" /\ data.sources_used.t = "array"
           /\ data.duration_secs.t = "number")
          => (/\ "hidden" \notin responseBox'
              /\ IsUpperCaseOf(data.mode.s, mode')
              /\ sources' = Join(data.sources_used.a, <<",", " ">>)
              /\ output' = data.response.s
              /\ domain' = data.domain_used.s
              /\ duration' = NumToString(data.duration_secs.n)
              /\ status' = <<>>)]_vars

\* the documented success response, rendered
C4_Witness ==
    /\ Visible
    /\ status = <<>>
    /\ output = <<"4", "2">>
    /\ mode = <<"F", "A", "S", "T">>
    /\ domain = <<"m", "a", "t", "h">>
    /\ sources = <<"a", ",", " ", "b">>
    /\ duration = <<"1", "2">>
    /\ \E c \in 1..Len(calls) :
          /\ calls[c].res.kind = "data"
          /\ calls[c].res.data.mode = Str(<<"f", "a", "s", "t">>)

\* C5: when a call completes because fetch or res.json() rejected, the status
\* is the fixed connectivity message, whatever the cause, and the result
\* region is hidden.
C5_TransportFailureHidesResult ==
    [][\A c \in 1..Len(calls) :
          (Completes(c) /\ calls'[c].res.kind \in {"fetchReject", "jsonReject"})
          => (status' = FailedMsg /\ "hidden" \in responseBox')]_vars

\* C6: two valid submissions of the same query in a row, each completed before
\* anything else is submitted, with the same outcome from the backend: the
\* second leaves the display exactly as the first left it.
C6_SameQueryTwiceSameDisplay ==
    [][\A c \in 2..Len(calls) :
          (/\ Completes(c)
           /\ ~calls[c].overlap /\ ~calls[c - 1].overlap
           /\ Valid(c) /\ Valid(c - 1)
           /\ calls[c - 1].query = calls[c].query
           /\ calls[c - 1].res = calls'[c].res)
          => DisplayNext = snap]_vars

\* a first call left a result on display; then the same query got the same
\* full response twice
C6_Witness ==
    /\ Len(calls) = 3 /\ InFlight = {}
    /\ \A c \in 1..3 : Valid(c) /\ ~calls[c].overlap
    /\ calls[1].res.kind = "data" /\ calls[2].res.kind = "data"
    /\ calls[1].res.data.mode = Str(<<"D", "e", "e", "p">>)
    /\ calls[2].res.data.mode = Str(<<"f", "a", "s", "t">>)
    /\ calls[2].res.data.sources_used.t = "array"
    /\ calls[3].res = calls[2].res
    /\ calls[3].query = calls[2].query
    /\ Display = snap
    /\ sources = <<"a", ",", " ", "b">>

\* C7: a visible result region goes with an empty status only.
C7_VisibleOnlyWithEmptyStatus == Visible => status = <<>>

\* C8: at most one request is awaiting its response at any time.
C8_AtMostOneInFlight == Cardinality(InFlight) <= 1

\* the display a call with result res produces when it runs alone
ShowsOutcome(res) ==
    IF res.kind \in {"fetchReject", "jsonReject"}
    THEN status = FailedMsg /\ ~Visible
    ELSE IF Truthy(res.data.error)
    THEN status = ErrorPrefix \o res.data.error.s /\ ~Visible
    ELSE /\ output = JSToString(res.data.response)
         /\ IF res.data.mode.t # "string" \/ res.data.sources_used.t # "array"
            THEN status = FailedMsg /\ ~Visible
            ELSE /\ status = <<>> /\ Visible
                 /\ IsUpperCaseOf(res.data.mode.s, mode)
                 /\ domain = JSToString(res.data.domain_used)
                 /\ sources = Join(res.data.sources_used.a, <<",", " ">>)
                 /\ duration = JSToString(res.data.duration_secs)

\* C9: once overlapping valid submissions have all completed, in whatever
\* order, the display is the outcome of the one started last.
C9_LastStartedWins ==
    \A c \in 1..Len(calls) :
        (/\ InFlight = {}
         /\ Valid(c) /\ calls[c].overlap
         /\ \A d \in (c + 1)..Len(calls) : ~Valid(d))
        => ShowsOutcome(calls[c].res)

AbsentText == {<<"u","n","d","e","f","i","n","e","d">>, <<>>}
FieldsNext == <<output', mode', domain', sources', duration'>>
Fields == <<output, mode, domain, sources, duration>>

\* C11: when a call completes on a response with no truthy error field, the
\* result region is revealed and the status cleared whichever of the five
\* fields are absent, and each absent field is rendered as an undefined or
\* empty value.
C11_MissingFieldNotAnError ==
    [][\A c \in 1..Len(calls) :
          LET data == calls'[c].res.data IN
          (/\ Completes(c)
           /\ calls'[c].res.kind = "data"
           /\ ~Truthy(data.error))
          => (/\ "hidden" \notin responseBox'
              /\ status' = <<>>
              /\ data.response.t = "undefined" => output' \in AbsentText
              /\ data.mode.t = "undefined" => mode' \in AbsentText
              /\ data.domain_used.t = "undefined" => domain' \in AbsentText
              /\ data.sources_used.t = "undefined" => sources' \in AbsentText
              /\ data.duration_secs.t = "undefined"
                    => duration' \in AbsentText)]_vars

\* the status texts of ErrorShown
IsErrorStatus(text) ==
    \/ text = FailedMsg
    \/ Len(text) > Len(ErrorPrefix)
          /\ SubSeq(text, 1, Len(ErrorPrefix)) = ErrorPrefix

\* C12 as stated: every completion, the step into ErrorShown or ResultShown,
\* is taken from the Thinking state: status "Thinking...", result hidden.
C12_ShownOnlyFromThinking ==
    [][\A c \in 1..Len(calls) :
          Completes(c) => (status = ThinkingMsg /\ ~Visible)]_vars

\* C12, amended: a valid click enters Thinking in the step that issues its
\* request; an error status appears and the region is revealed only in the
\* completion of a request; that completion is taken from Thinking when the
\* call is the last click and no other request was awaited beside it; and
\* every completion leaves a status other than "Thinking...".
C12_ThinkingThenShown ==
    [][/\ (Clicked /\ ~IsBlank(input'))
            => (/\ status' = ThinkingMsg
                /\ "hidden" \in responseBox'
                /\ Len(requests') = Len(requests) + 1)
       /\ ((IsErrorStatus(status') /\ status' # status)
              \/ ("hidden" \in responseBox /\ "hidden" \notin responseBox'))
            => \E c \in 1..Len(calls) : Completes(c)
       /\ \A c \in 1..Len(calls) :
            Completes(c) =>
               /\ (c = Len(calls) /\ ~calls[c].overlap)
                     => (status = ThinkingMsg /\ ~Visible)
               /\ status' # ThinkingMsg
               /\ IsErrorStatus(status')
                     \/ (status' = <<>> /\ "hidden" \notin responseBox')]_vars

\* a result was on display, a second valid click went through Thinking and
\* its request ended in the catch block
C12_Witness ==
    /\ Len(calls) = 2 /\ InFlight = {}
    /\ Valid(1) /\ Valid(2)
    /\ ~calls[1].overlap /\ ~calls[2].overlap
    /\ calls[1].res.kind = "data" /\ output = <<"4", "2">>
    /\ sources = <<"a", ",", " ", "b">>
    /\ calls[2].res.kind = "jsonReject"
    /\ status = FailedMsg
    /\ ~Visible

\* C13: a call that ends on a failure path leaves the five result fields as
\* they were: the blank click, the completion on a truthy error field, and
\* every completion that sets the status to the connectivity message.
C13_FailurePathsRenderNothing ==
    [][/\ (Clicked /\ IsBlank(input')) => FieldsNext = Fields
       /\ \A c \in 1..Len(calls) :
            (/\ Completes(c)
             /\ \/ status' = FailedMsg
                \/ calls'[c].res.kind = "data"
                      /\ Truthy(calls'[c].res.data.error))
            => FieldsNext = Fields]_vars

\* C14: in every state the status "Thinking..." goes with a hidden result
\* region; a step that sets the status to "Thinking..." leaves the region
\* hidden, and a step that reveals the region leaves the status empty.
C14_ThinkingImpliesHidden ==
    /\ [](status = ThinkingMsg => "hidden" \in responseBox)
    /\ [][/\ (status' = ThinkingMsg /\ status # ThinkingMsg)
               => "hidden" \in responseBox'
          /\ ("hidden" \in responseBox /\ "hidden" \notin responseBox')
               => status' = <<>>]_vars

\* two valid clicks overlapped, the older request completed and put its
\* result on display, and a third valid click came while the second request
\* was still awaited
C14_Witness ==
    /\ Len(calls) = 3
    /\ calls[1].overlap /\ calls[2].overlap /\ calls[3].overlap
    /\ calls[1].res.kind = "data" /\ sources = <<"a", ",", " ", "b">>
    /\ snap.status = <<>> /\ "hidden" \notin snap.responseBox
    /\ Pending(2) /\ Pending(3)
    /\ status = ThinkingMsg
    /\ ~Visible

====
